---- MODULE Spec2Model ----
(***************************************************************************)
(* Authentication and session lifecycle of the team-skillmap MCP server:   *)
(* the PKCE verifier store, the session validator with refresh-token       *)
(* rotation, and the /authorize and /callback handlers                     *)
(* (src/src/auth/authkit-handler.ts).                                      *)
(*                                                                         *)
(* A request is a process that runs one handler.  A handler is cut into    *)
(* steps at the awaits that touch shared state (the USER_SESSIONS          *)
(* namespace, the identity provider); the code between two awaits is one   *)
(* atomic step.  Each single KV operation (get, put, delete) is atomic.    *)
(*                                                                         *)
(* Time is counted in whole seconds.  Date.now() is in milliseconds in the *)
(* source; the model keeps every timestamp in seconds (ms / 1000), so      *)
(* SESSION_DURATION_MS and SESSION_DURATION_SECONDS are the same number.   *)
(***************************************************************************)
EXTENDS Integers, FiniteSets, Sequences, TLC

\* ------------------------------------------------------------------ bounds
MaxTicks == 1
MaxSessionTicks == 2
MaxIssued == 3
MaxVerifiers == 2
MaxKeys == 2
MaxKeyTicks == 1

\* ------------------------------------------------------- program constants
PKCE_TTL == 600
SESSION_DURATION_SECONDS == 30 * 24 * 60 * 60
SESSION_DURATION_MS == SESSION_DURATION_SECONDS

\* ----------------------------------------------------------------- domains
Procs == {"p1", "p2"}
Tokens == {"tok1"}
Emails == {"a@x"}
NoCookie == "none"
NoToken == 0
NoVerifier == 0
NoCode == "none"
NoEntry == [absent |-> TRUE]
NoSession == [absent |-> TRUE]
NoUser == [absent |-> TRUE]
NoResult == [valid |-> FALSE, reason |-> "pending"]
NoResp == [status |-> 0, body |-> "none", location |-> <<>>]

\* The OAuth client requests parseAuthRequest can return.
OAuthReqs ==
  { [clientId |-> "c1", scope |-> "read"],
    [clientId |-> "c1", scope |-> "write"],
    [clientId |-> "", scope |-> "read"] }

\* state = btoa(JSON.stringify(oauthReq)); the callback decodes it again.
Btoa(req) == <<"b64", req>>
Atob(state) == state[2]
States == { Btoa(r) : r \in OAuthReqs }

\* A state parameter that is missing, is not base64, or is not the JSON of
\* an object: atob or JSON.parse throws, or the read of clientId does.
NoState == <<"undefined">>
RawStates == {NoState, <<"%%%">>, <<"bnVsbA">>}
Decodable(state) == state \in States

\* code_challenge = BASE64URL(SHA256(code_verifier)), an injective image.
generateCodeChallenge(verifier) == <<"S256", verifier>>

\* How far the clock moves in one step, per specification.
PkceTickSteps == {PKCE_TTL - 1, PKCE_TTL}
SessionTickSteps == {1, 2, SESSION_DURATION_SECONDS - 1}

VARIABLES
  now,          \* the clock, seconds
  ticks,        \* number of clock steps taken
  kvConfigured, \* env.USER_SESSIONS is bound
  pkce,         \* USER_SESSIONS keys pkce:{state}
  sessions,     \* USER_SESSIONS keys workos_session:{token}
  idpIssued,    \* refresh tokens issued by the identity provider so far
  verifierCtr,  \* code verifiers drawn so far
  proc,         \* the requests in flight
  takes,        \* history: how often getCodeVerifier returned each verifier
  storedUnder,  \* history: the state and time each verifier was put under
  issuedAt,     \* history: when the identity provider issued each refresh token
  api_keys,     \* D1 table api_keys, in insertion order
  users,        \* D1 table users, by user_id
  changes,      \* D1 meta.changes of the last write statement
  kreq          \* the API-key request in flight, or the last one answered

\* How far the clock moves in one step of the API-key specification.
KeyTickSteps == {24 * 60 * 60, 24 * 60 * 60 + 1}

keyVars == <<api_keys, users, changes, kreq>>
authVars == <<kvConfigured, pkce, sessions, idpIssued, verifierCtr, proc,
              takes, storedUnder, issuedAt>>
vars == <<now, ticks, kvConfigured, pkce, sessions, idpIssued,
          verifierCtr, proc, takes, storedUnder, issuedAt,
          api_keys, users, changes, kreq>>

\* ------------------------------------------------------- the KV namespace
\* get: a key that was never put, was deleted, or whose TTL has run out
\* reads as null.
KvVisible(entry) == entry # NoEntry /\ now < entry.exp
KvPut(kv, key, val, ttl) == [kv EXCEPT ![key] = [val |-> val, exp |-> now + ttl]]
KvDelete(kv, key) == [kv EXCEPT ![key] = NoEntry]

\* ------------------------------------------------------------- processes
IdleProc ==
  [ pc |-> "idle", handler |-> "none",
    oauthReq |-> [clientId |-> "", scope |-> "read"],
    sessionToken |-> NoCookie, session |-> NoSession, t |-> 0,
    newAuth |-> NoToken, newSession |-> NoSession, updatedSession |-> NoSession,
    result |-> NoResult,
    state |-> Btoa([clientId |-> "", scope |-> "read"]), code |-> NoCode,
    codeVerifier |-> NoVerifier, codeChallenge |-> <<"S256", NoVerifier>>,
    email |-> "",
    upstream |-> 0, writes |-> 0, exchanged |-> FALSE, completed |-> FALSE,
    thrown |-> FALSE, userRow |-> "none",
    resp |-> NoResp ]

\* The body of an unhandled error: the framework's default handler, or the
\* catch of the worker's fetch.
ErrorBodies == {"Internal Server Error", "Internal server error"}

Respond(status, body) == [status |-> status, body |-> body, location |-> <<>>]
Redirect(location) == [status |-> 302, body |-> "", location |-> location]

\* A handler that answers a failed validation with an error.
PanelLoginRedirect_surfacing(r) ==
  IF r.sessionToken # NoCookie
  THEN Respond(401, "Session invalid")
  ELSE Redirect(<<"https://panel.wtyczki.ai/auth/login-custom",
                  <<"/authorize", r.oauthReq, r.sessionToken>>>>)

\* The redirect to the centralized login, return_to = c.req.url.
PanelLoginRedirect(r) ==
  Redirect(<<"https://panel.wtyczki.ai/auth/login-custom",
             <<"/authorize", r.oauthReq, r.sessionToken>>>>)

Finish(p, r, resp) == [proc EXCEPT ![p] = [r EXCEPT !.pc = "done", !.resp = resp]]
Goto(p, r, pc) == [proc EXCEPT ![p] = [r EXCEPT !.pc = pc]]

AllIdle == \A q \in Procs : proc[q].pc \in {"idle", "done"}

\* ------------------------------------------------------------ PKCE manager
\* storeCodeVerifier: a no-op when the namespace is not bound.
storeCodeVerifier(bound, kv, state, verifier) ==
  IF ~bound THEN kv ELSE KvPut(kv, state, verifier, PKCE_TTL)

\* getCodeVerifier, the get: null when the namespace is not bound.
readCodeVerifier(bound, kv, state) ==
  IF ~bound THEN NoVerifier
  ELSE IF KvVisible(kv[state]) THEN kv[state].val ELSE NoVerifier

\* A getCodeVerifier that forgets the delete.
deleteCodeVerifier_skipped(kv, state) == kv

\* getCodeVerifier, the delete after a successful get.
deleteCodeVerifier(kv, state) == KvDelete(kv, state)

\* A callback that goes on without a verifier.
VerifierMissing_ignored(codeVerifier) == FALSE

\* The callback's test of what getCodeVerifier returned.
VerifierMissing(codeVerifier) == codeVerifier = NoVerifier

\* ------------------------------------------------------- session validator
\* An expiry test that also rejects the last valid instant.
Expired_inclusive(session, t) == session.expires_at <= t

Expired(session, t) == session.expires_at < t

\* A refresh that keeps the old refresh token.
RefreshedSession_stale(session, refreshToken, t) ==
  [session EXCEPT !.expires_at = t + SESSION_DURATION_MS,
                  !.last_accessed_at = t]

RefreshedSession(session, refreshToken, t) ==
  [session EXCEPT !.refresh_token = refreshToken,
                  !.expires_at = t + SESSION_DURATION_MS,
                  !.last_accessed_at = t]

\* A touch that also slides the business expiry.
TouchedSession_sliding(session, t) ==
  [session EXCEPT !.last_accessed_at = t, !.expires_at = t + SESSION_DURATION_MS]

TouchedSession(session, t) == [session EXCEPT !.last_accessed_at = t]

\* A catch block that deletes the session.
RefreshFailedStore_deleting(kv, key) == KvDelete(kv, key)

\* The session store after a refresh exchange that threw.
RefreshFailedStore(kv, key) == kv

\* A put that merges into the stored record, keeping its refresh token.
putSession_merging(kv, key, session) ==
  IF kv[key] = NoEntry
  THEN KvPut(kv, key, session, SESSION_DURATION_SECONDS)
  ELSE KvPut(kv, key, [session EXCEPT !.refresh_token = kv[key].val.refresh_token],
             SESSION_DURATION_SECONDS)

\* A put that leaves the storage lifetime of an existing entry as it was.
putSession_keepTtl(kv, key, session) ==
  IF kv[key] = NoEntry
  THEN KvPut(kv, key, session, SESSION_DURATION_SECONDS)
  ELSE [kv EXCEPT ![key] = [val |-> session, exp |-> kv[key].exp]]

\* The put of a whole session record.
putSession(kv, key, session) == KvPut(kv, key, session, SESSION_DURATION_SECONDS)

\* ---------------------------------------------------------- user directory
\* The users table is owned by the panel; a row is absent, active or
\* soft-deleted at the moment of the query.
UserRows == {"absent", "active", "deleted"}

\* SELECT ... WHERE email = ? AND is_deleted = 0; null when the query throws.
getUserByEmail(row, email, dbOk) ==
  IF dbOk /\ row = "active"
  THEN [user_id |-> <<"db", email>>, email |-> email, is_deleted |-> 0]
  ELSE NoUser

\* The tail both handlers share: user lookup, then completeAuthorization.
UserStep(p, r, email) ==
  \E row \in UserRows, dbOk \in BOOLEAN :
    LET dbUser == getUserByEmail(row, email, dbOk)
        looked == [r EXCEPT !.userRow = IF dbOk THEN row ELSE "error"] IN
    proc' = IF dbUser = NoUser
            THEN Finish(p, looked, Respond(403, "registration_page"))
            ELSE IF dbUser.is_deleted = 1
            THEN Finish(p, looked, Respond(403, "deleted_page"))
            ELSE Finish(p, [looked EXCEPT !.completed = TRUE], Respond(200, "success_page"))

\* ----------------------------------------------------------------- API keys
\* (src/src/auth/apiKeys.ts, src/src/api-key-handler.ts)
UserIds == {"u1", "u2"}
UserEmail == [u \in UserIds |-> IF u = "u1" THEN "u1@x" ELSE "u2@x"]
Names == {"ci-key"}
KeyIds == 1 .. MaxKeys
KeyProcs == {"k1", "k2"}
DAY == 24 * 60 * 60
NoKey == [absent |-> TRUE]
NoIdentity == [absent |-> TRUE]
NoExpiry == 0
NoUse == 0

\* The expiresInDays argument: omitted, or a number.
ExpiresInDays == {<<>>, <<0>>, <<1>>, <<-1>>}
Truthy(expiresInDays) == expiresInDays # <<>> /\ expiresInDays[1] # 0

\* A key string is its literal prefix, then hex digits: the first eleven
\* (they end the 16-character display prefix) and the rest.
WTYK == <<"w", "t", "y", "k", "_">>
HexDigits == 2 * 32
KeyLength == 69
ApiKeyOf(n) == [prefix |-> WTYK, head |-> n, tail |-> n, hexLen |-> HexDigits]
Length(apiKey) == Len(apiKey.prefix) + apiKey.hexLen
StartsWith(apiKey, literal) ==
  /\ Len(apiKey.prefix) >= Len(literal)
  /\ SubSeq(apiKey.prefix, 1, Len(literal)) = literal

\* No Authorization header, or nothing after "Bearer ".
NoApiKey == [prefix |-> <<>>, head |-> 0, tail |-> 0, hexLen |-> 0]

\* The key strings a caller may present once n keys have been issued: the
\* issued ones, a well-formed key that was never issued, an issued key cut
\* short by one digit, one with another literal in front, and none.
Candidates(n) ==
  { ApiKeyOf(i) : i \in 0 .. n }
    \cup { [ApiKeyOf(1) EXCEPT !.hexLen = HexDigits - 1],
           [ApiKeyOf(1) EXCEPT !.prefix = <<"w", "t", "y", "k", "-">>],
           NoApiKey }

\* SHA-256 over the whole key string, hex: an injective image.
hashApiKey(apiKey) == <<"sha256", apiKey>>

\* apiKey.substring(0, 16)
KeyPrefix(apiKey) == <<apiKey.prefix, apiKey.head>>

\* A generateApiKey that hashes the display prefix instead of the key.
NewKeyRecord_prefixHash(apiKeyId, apiKey, userId, name, expiresInDays, t) ==
  [ api_key_id |-> apiKeyId, user_id |-> userId,
    api_key_hash |-> hashApiKey(KeyPrefix(apiKey)),
    key_prefix |-> KeyPrefix(apiKey), name |-> name, last_used_at |-> NoUse,
    created_at |-> t,
    expires_at |-> IF Truthy(expiresInDays) THEN t + expiresInDays[1] * DAY ELSE NoExpiry,
    is_active |-> 1 ]

\* generateApiKey: the record inserted for a new key.
NewKeyRecord(apiKeyId, apiKey, userId, name, expiresInDays, t) ==
  [ api_key_id |-> apiKeyId, user_id |-> userId,
    api_key_hash |-> hashApiKey(apiKey),
    key_prefix |-> KeyPrefix(apiKey), name |-> name, last_used_at |-> NoUse,
    created_at |-> t,
    expires_at |-> IF Truthy(expiresInDays) THEN t + expiresInDays[1] * DAY ELSE NoExpiry,
    is_active |-> 1 ]

\* A format test that looks at the literal prefix only.
WellFormed_prefixOnly(apiKey) == StartsWith(apiKey, WTYK)

\* validateApiKey: the format test.
WellFormed(apiKey) == StartsWith(apiKey, WTYK) /\ Length(apiKey) = KeyLength

\* SELECT ... FROM api_keys WHERE api_key_hash = ? .first()
KeyColumns == {"api_key_id", "user_id", "api_key_hash", "expires_at", "is_active"}
SelectKeyByHash(table, apiKeyHash) ==
  LET hits == { i \in DOMAIN table : table[i].api_key_hash = apiKeyHash } IN
  IF hits = {} THEN NoKey
  ELSE LET i == CHOOSE j \in hits : \A h \in hits : j <= h IN
       [c \in KeyColumns |-> table[i][c]]

\* A test that lets a revoked key through.
KeyRejected_activeIgnored(keyRecord) == keyRecord = NoKey

\* validateApiKey: no record, or a record that is not active.
KeyRejected(keyRecord) == keyRecord = NoKey \/ keyRecord.is_active # 1

\* An expiry test that never fires.
KeyExpired_never(keyRecord, t) == FALSE

\* validateApiKey: expires_at is set and in the past.
KeyExpired(keyRecord, t) == keyRecord.expires_at # NoExpiry /\ keyRecord.expires_at < t

\* SELECT email, is_deleted FROM users WHERE user_id = ? .first()
SelectUserById(table, userId) ==
  IF table[userId] = "absent" THEN NoUser
  ELSE [email |-> UserEmail[userId],
        is_deleted |-> IF table[userId] = "deleted" THEN 1 ELSE 0]

\* An owner test that lets a soft-deleted owner through.
OwnerRejected_deletedIgnored(user) == user = NoUser

\* validateApiKey: no owner row, or a soft-deleted owner.
OwnerRejected(user) == user = NoUser \/ user.is_deleted = 1

\* UPDATE api_keys SET last_used_at = ? WHERE api_key_id = ?
TouchKey(table, apiKeyId, t) ==
  [i \in DOMAIN table |->
     IF table[i].api_key_id = apiKeyId
     THEN [table[i] EXCEPT !.last_used_at = t] ELSE table[i]]

\* A revoke that forgets the owner.
revokeApiKey_unscoped(table, apiKeyId, userId) ==
  [i \in DOMAIN table |->
     IF table[i].api_key_id = apiKeyId
     THEN [table[i] EXCEPT !.is_active = 0] ELSE table[i]]

\* UPDATE api_keys SET is_active = 0 WHERE api_key_id = ? AND user_id = ?
revokeApiKey(table, apiKeyId, userId) ==
  [i \in DOMAIN table |->
     IF table[i].api_key_id = apiKeyId /\ table[i].user_id = userId
     THEN [table[i] EXCEPT !.is_active = 0] ELSE table[i]]

\* result.meta.changes: the rows the WHERE clause matched.
Changes(table, apiKeyId, userId) ==
  Cardinality({ i \in DOMAIN table :
                  table[i].api_key_id = apiKeyId /\ table[i].user_id = userId })

\* listUserApiKeys: the columns selected, and the orders ORDER BY
\* created_at DESC allows (rows of equal created_at come in any order).
ListColumns_withHash ==
  {"api_key_id", "user_id", "api_key_hash", "key_prefix", "name", "last_used_at",
   "created_at", "expires_at", "is_active"}
ListColumns ==
  {"api_key_id", "user_id", "key_prefix", "name", "last_used_at", "created_at",
   "expires_at", "is_active"}
ListOrders(table, userId) ==
  LET mine == { i \in DOMAIN table : table[i].user_id = userId }
      n == Cardinality(mine) IN
  { [j \in 1 .. n |-> [c \in ListColumns |-> table[f[j]][c]]] :
      f \in { g \in [1 .. n -> mine] :
                /\ \A a, b \in 1 .. n : a # b => g[a] # g[b]
                /\ \A a, b \in 1 .. n :
                     a < b => table[g[a]].created_at >= table[g[b]].created_at } }

\* request.headers.get("Authorization"): null, or a string, kept as the
\* characters in front of the token and the token.
NoHeader == [absent |-> TRUE]
Bearer == <<"B", "e", "a", "r", "e", "r", " ">>

\* A request on the API-key path: the locals of handleApiKeyRequest and
\* validateApiKey, and as history the number of hashApiKey calls and of
\* statements issued, the owner row the query saw and the test that
\* rejected the key.  A request that came through the worker's fetch also
\* has the path and header it came with and the handlers it was given to.
IdleKey ==
  [ pc |-> "idle", pathname |-> "", authHeader |-> NoHeader,
    keyPath |-> FALSE, oauthPath |-> FALSE, apiKey |-> NoApiKey,
    apiKeyHash |-> <<>>, keyRecord |-> NoKey, user |-> NoUser, t |-> 0,
    hashed |-> 0, queries |-> 0, ownerRow |-> "none", cause |-> "none",
    result |-> NoIdentity, resp |-> NoResp ]

\* The locals of validateApiKey are gone when it returns.
Returned(r) ==
  [r EXCEPT !.pc = "done", !.apiKeyHash = <<>>, !.keyRecord = NoKey,
            !.user = NoUser, !.t = 0]

jsonError(message, status) ==
  [status |-> status, body |-> [error |-> message], location |-> <<>>]

\* A handler that tells the caller which check failed.
RejectResponse_telling(r) ==
  IF r.keyRecord # NoKey /\ r.keyRecord.is_active # 1
  THEN jsonError("API key revoked", 401)
  ELSE jsonError("Invalid or expired API key", 401)

\* handleApiKeyRequest: the answer to a key validateApiKey rejected.
RejectResponse(r) == jsonError("Invalid or expired API key", 401)

\* validateApiKey returns null, and the handler answers.
Reject(q, r, cause) ==
  [kreq EXCEPT ![q] = [Returned(r) EXCEPT !.result = NoIdentity, !.cause = cause,
                                          !.resp = RejectResponse(r)]]

\* The router's test of the Authorization header (index.ts).
AuthHeader(apiKey) == [scheme |-> Bearer, token |-> apiKey]

\* authHeader.replace("Bearer ", ""): the first "Bearer " is cut out, and a
\* header without one stays as it is.
BearerToken(authHeader) ==
  IF authHeader.scheme = Bearer THEN authHeader.token
  ELSE [authHeader.token EXCEPT !.prefix = authHeader.scheme \o @]

isApiKeyRequest(pathname, authHeader) ==
  /\ pathname = "/mcp"
  /\ authHeader # NoHeader
  /\ Len(authHeader.scheme) + Length(authHeader.token) > 0
  /\ StartsWith(BearerToken(authHeader), WTYK)

\* ------------------------------------------------------------- environment
Init ==
  /\ now = 0
  /\ ticks = 0
  /\ kvConfigured \in BOOLEAN
  /\ pkce = [s \in States |-> NoEntry]
  /\ sessions = [k \in Tokens |-> NoEntry]
  /\ idpIssued = 0
  /\ verifierCtr = 0
  /\ proc = [p \in Procs |-> IdleProc]
  /\ takes = [v \in 1 .. MaxVerifiers |-> 0]
  /\ storedUnder = [v \in 1 .. MaxVerifiers |-> <<>>]
  /\ issuedAt = [i \in 1 .. MaxIssued |-> -1]
  /\ api_keys = <<>>
  /\ users = [u \in UserIds |-> "active"]
  /\ changes = 0
  /\ kreq = [q \in KeyProcs |-> IdleKey]

Tick(d, max) ==
  /\ ticks < max
  /\ now' = now + d
  /\ ticks' = ticks + 1
  /\ UNCHANGED <<kvConfigured, pkce, sessions, idpIssued, issuedAt, verifierCtr,
                 proc, takes, storedUnder>>
  /\ UNCHANGED keyVars

\* The centralized login creates a session (PANEL_AUTH_CONTRACT.md, step 4).
PanelLogin(k, email, withRefresh) ==
  /\ kvConfigured
  /\ sessions[k] = NoEntry
  /\ idpIssued < MaxIssued
  /\ idpIssued' = idpIssued + 1
  /\ issuedAt' = [issuedAt EXCEPT ![idpIssued + 1] = now]
  /\ sessions' = KvPut(sessions, k,
       [user_id |-> <<"workos", email>>, email |-> email,
        expires_at |-> now + SESSION_DURATION_MS,
        refresh_token |-> IF withRefresh THEN idpIssued + 1 ELSE NoToken,
        created_at |-> now, last_accessed_at |-> now],
       SESSION_DURATION_SECONDS)
  /\ UNCHANGED <<now, ticks, kvConfigured, pkce, verifierCtr, proc,
                 takes, storedUnder>>
  /\ UNCHANGED keyVars

\* Another MCP server on the shared namespace validates the session while
\* it is not expired: the touch of validateAndRefreshSession, as one step.
PeerTouch(k) ==
  /\ KvVisible(sessions[k])
  /\ ~Expired(sessions[k].val, now)
  /\ sessions[k].val.last_accessed_at # now
  /\ sessions' = putSession(sessions, k, TouchedSession(sessions[k].val, now))
  /\ UNCHANGED <<now, ticks, kvConfigured, pkce, idpIssued, issuedAt, verifierCtr,
                 proc, takes, storedUnder>>
  /\ UNCHANGED keyVars

\* The PKCE manager's store operation called with a bound namespace and a
\* freshly generated verifier.
StoreVerifier(s) ==
  /\ kvConfigured
  /\ verifierCtr < MaxVerifiers
  /\ verifierCtr' = verifierCtr + 1
  /\ pkce' = storeCodeVerifier(kvConfigured, pkce, s, verifierCtr + 1)
  /\ storedUnder' = [storedUnder EXCEPT ![verifierCtr + 1] = <<s, now>>]
  /\ UNCHANGED <<now, ticks, kvConfigured, sessions, idpIssued, issuedAt, proc, takes>>
  /\ UNCHANGED keyVars

\* ------------------------------------------------------------ GET /authorize
\* Up to the first await on shared state.
StartAuthorize(p, oauthReq, cookie) ==
  /\ proc[p].pc = "idle"
  /\ LET r == [proc[p] EXCEPT !.handler = "authorize", !.oauthReq = oauthReq,
                               !.sessionToken = cookie] IN
     IF oauthReq.clientId = ""
     THEN /\ proc' = Finish(p, r, Respond(400, "Invalid request"))
          /\ UNCHANGED verifierCtr
     ELSE IF cookie # NoCookie /\ kvConfigured
     THEN /\ proc' = Goto(p, r, "v_get")
          /\ UNCHANGED verifierCtr
     ELSE IF ~kvConfigured
     THEN /\ verifierCtr < MaxVerifiers
          /\ verifierCtr' = verifierCtr + 1
          /\ proc' = Goto(p, [r EXCEPT !.codeVerifier = verifierCtr + 1,
                                       !.codeChallenge = generateCodeChallenge(verifierCtr + 1),
                                       !.state = Btoa(oauthReq)], "a_store")
     ELSE /\ proc' = Finish(p, r, PanelLoginRedirect(r))
          /\ UNCHANGED verifierCtr
  /\ UNCHANGED <<now, ticks, kvConfigured, pkce, sessions, idpIssued, issuedAt,
                 takes, storedUnder>>
  /\ UNCHANGED keyVars

\* await storeCodeVerifier(...), then the redirect to the identity provider.
AuthorizeStore(p) ==
  /\ proc[p].pc = "a_store"
  /\ LET r == proc[p] IN
     /\ pkce' = storeCodeVerifier(kvConfigured, pkce, r.state, r.codeVerifier)
     /\ storedUnder' = IF pkce' # pkce
                       THEN [storedUnder EXCEPT ![r.codeVerifier] = <<r.state, now>>]
                       ELSE storedUnder
     /\ proc' = Finish(p, r, Redirect(<<"authkit", r.state, r.codeChallenge>>))
  /\ UNCHANGED <<now, ticks, kvConfigured, sessions, idpIssued, issuedAt,
                 verifierCtr, takes>>
  /\ UNCHANGED keyVars

\* validateAndRefreshSession: the get and the decision that follows it.
ValidateGet(p) ==
  /\ proc[p].pc = "v_get"
  /\ LET k == proc[p].sessionToken
         session == IF KvVisible(sessions[k]) THEN sessions[k].val ELSE NoSession
         r == [proc[p] EXCEPT !.session = session, !.t = now] IN
     IF session = NoSession
     THEN proc' = Finish(p, [r EXCEPT !.result = [valid |-> FALSE, reason |-> "NO_SESSION"]],
                         PanelLoginRedirect(r))
     ELSE IF Expired(session, now)
     THEN IF session.refresh_token # NoToken
          THEN proc' = Goto(p, r, "v_refresh")
          ELSE proc' = Finish(p, [r EXCEPT !.result = [valid |-> FALSE, reason |-> "EXPIRED"]],
                              PanelLoginRedirect(r))
     ELSE proc' = Goto(p, [r EXCEPT !.updatedSession = TouchedSession(session, now)],
                       "v_touch_put")
  /\ UNCHANGED <<now, ticks, kvConfigured, pkce, sessions, idpIssued, issuedAt,
                 verifierCtr, takes, storedUnder>>
  /\ UNCHANGED keyVars

\* authenticateWithRefreshToken returns a new refresh token or throws.
ValidateRefresh(p) ==
  /\ proc[p].pc = "v_refresh"
  /\ LET r == [proc[p] EXCEPT !.upstream = @ + 1]
         k == proc[p].sessionToken IN
     \/ /\ idpIssued < MaxIssued
        /\ idpIssued' = idpIssued + 1
        /\ issuedAt' = [issuedAt EXCEPT ![idpIssued + 1] = now]
        /\ proc' = Goto(p, [r EXCEPT !.newAuth = idpIssued + 1, !.t = now,
                                     !.newSession = RefreshedSession(r.session, idpIssued + 1, now)],
                        "v_refresh_put")
        /\ UNCHANGED sessions
     \/ /\ sessions' = RefreshFailedStore(sessions, k)
        /\ proc' = Finish(p, [r EXCEPT !.result = [valid |-> FALSE, reason |-> "REFRESH_FAILED"],
                                       !.writes = IF sessions' # sessions THEN @ + 1 ELSE @],
                          PanelLoginRedirect(r))
        /\ UNCHANGED <<idpIssued, issuedAt>>
  /\ UNCHANGED <<now, ticks, kvConfigured, pkce, verifierCtr, takes, storedUnder>>
  /\ UNCHANGED keyVars

\* The put of the refreshed session.
ValidateRefreshPut(p) ==
  /\ proc[p].pc = "v_refresh_put"
  /\ LET r == proc[p] IN
     /\ sessions' = putSession(sessions, r.sessionToken, r.newSession)
     /\ proc' = Goto(p, [r EXCEPT !.writes = @ + 1, !.email = r.newSession.email,
                                  !.result = [valid |-> TRUE, reason |-> "VALID"]],
                     "a_user")
  /\ UNCHANGED <<now, ticks, kvConfigured, pkce, idpIssued, issuedAt, verifierCtr,
                 takes, storedUnder>>
  /\ UNCHANGED keyVars

\* The put of the touched session.
ValidateTouchPut(p) ==
  /\ proc[p].pc = "v_touch_put"
  /\ LET r == proc[p] IN
     /\ sessions' = putSession(sessions, r.sessionToken, r.updatedSession)
     /\ proc' = Goto(p, [r EXCEPT !.writes = @ + 1, !.email = r.updatedSession.email,
                                  !.result = [valid |-> TRUE, reason |-> "VALID"]],
                     "a_user")
  /\ UNCHANGED <<now, ticks, kvConfigured, pkce, idpIssued, issuedAt, verifierCtr,
                 takes, storedUnder>>
  /\ UNCHANGED keyVars

\* The put of the touched session rejects.  Nothing in
\* validateAndRefreshSession or in the /authorize handler catches it: the
\* request ends with the 500 of whichever error handler sees it first.
ValidateTouchPutThrows(p) ==
  /\ proc[p].pc = "v_touch_put"
  /\ \E body \in ErrorBodies :
       proc' = Finish(p, [proc[p] EXCEPT !.thrown = TRUE], Respond(500, body))
  /\ UNCHANGED <<now, ticks, kvConfigured, pkce, sessions, idpIssued, issuedAt,
                 verifierCtr, takes, storedUnder>>
  /\ UNCHANGED keyVars

\* The put of the refreshed session rejects inside the try block: the catch
\* turns it into REFRESH_FAILED.
ValidateRefreshPutThrows(p) ==
  /\ proc[p].pc = "v_refresh_put"
  /\ LET r == [proc[p] EXCEPT !.thrown = TRUE,
                               !.result = [valid |-> FALSE, reason |-> "REFRESH_FAILED"]] IN
     proc' = Finish(p, r, PanelLoginRedirect(r))
  /\ UNCHANGED <<now, ticks, kvConfigured, pkce, sessions, idpIssued, issuedAt,
                 verifierCtr, takes, storedUnder>>
  /\ UNCHANGED keyVars

\* A valid session: user lookup and completeAuthorization.
AuthorizeUser(p) ==
  /\ proc[p].pc = "a_user"
  /\ UserStep(p, proc[p], proc[p].email)
  /\ UNCHANGED <<now, ticks, kvConfigured, pkce, sessions, idpIssued, issuedAt,
                 verifierCtr, takes, storedUnder>>
  /\ UNCHANGED keyVars

\* ------------------------------------------------------------- GET /callback
StartCallback(p, state, code) ==
  /\ proc[p].pc = "idle"
  /\ IF ~Decodable(state)
     THEN \E body \in ErrorBodies :
            proc' = Finish(p, [proc[p] EXCEPT !.handler = "callback", !.state = state,
                                              !.code = code, !.thrown = TRUE],
                           Respond(500, body))
     ELSE LET r == [proc[p] EXCEPT !.handler = "callback", !.oauthReq = Atob(state),
                                   !.state = state, !.code = code] IN
          IF r.oauthReq.clientId = ""
          THEN proc' = Finish(p, r, Respond(400, "Invalid state"))
          ELSE IF code = NoCode
          THEN proc' = Finish(p, r, Respond(400, "Missing code"))
          ELSE proc' = Goto(p, r, "cb_get")
  /\ UNCHANGED <<now, ticks, kvConfigured, pkce, sessions, idpIssued, issuedAt,
                 verifierCtr, takes, storedUnder>>
  /\ UNCHANGED keyVars

\* getCodeVerifier: the get.  A null result returns to the handler at once.
CallbackGet(p) ==
  /\ proc[p].pc = "cb_get"
  /\ LET v == readCodeVerifier(kvConfigured, pkce, proc[p].state)
         r == [proc[p] EXCEPT !.codeVerifier = v] IN
     /\ takes' = IF v # NoVerifier THEN [takes EXCEPT ![v] = @ + 1] ELSE takes
     /\ proc' = IF v # NoVerifier THEN Goto(p, r, "cb_delete")
                ELSE IF VerifierMissing(v)
                THEN Finish(p, r, Respond(400, "Invalid or expired PKCE verification"))
                ELSE Goto(p, r, "cb_exchange")
  /\ UNCHANGED <<now, ticks, kvConfigured, pkce, sessions, idpIssued, issuedAt,
                 verifierCtr, storedUnder>>
  /\ UNCHANGED keyVars

\* getCodeVerifier: the delete, then the handler's test of the result.
CallbackDelete(p) ==
  /\ proc[p].pc = "cb_delete"
  /\ LET r == proc[p] IN
     /\ pkce' = deleteCodeVerifier(pkce, r.state)
     /\ proc' = IF VerifierMissing(r.codeVerifier)
                THEN Finish(p, r, Respond(400, "Invalid or expired PKCE verification"))
                ELSE Goto(p, r, "cb_exchange")
  /\ UNCHANGED <<now, ticks, kvConfigured, sessions, idpIssued, issuedAt,
                 verifierCtr, takes, storedUnder>>
  /\ UNCHANGED keyVars

\* What authenticateWithCode can throw.
ExchangeErrors == {"invalid_grant", "fetch failed"}

\* A catch that passes the error's message on.
AuthFailed_detailed(error) == Respond(400, error)

\* The catch around authenticateWithCode: it binds no error.
AuthFailed(error) == Respond(400, "Auth failed")

\* authenticateWithCode returns the user or throws.
CallbackExchange(p) ==
  /\ proc[p].pc = "cb_exchange"
  /\ LET r == [proc[p] EXCEPT !.exchanged = TRUE, !.upstream = @ + 1] IN
     \/ \E email \in Emails : proc' = Goto(p, [r EXCEPT !.email = email], "cb_user")
     \/ \E error \in ExchangeErrors : proc' = Finish(p, r, AuthFailed(error))
  /\ UNCHANGED <<now, ticks, kvConfigured, pkce, sessions, idpIssued, issuedAt,
                 verifierCtr, takes, storedUnder>>
  /\ UNCHANGED keyVars

\* User lookup and completeAuthorization.
CallbackUser(p) ==
  /\ proc[p].pc = "cb_user"
  /\ UserStep(p, proc[p], proc[p].email)
  /\ UNCHANGED <<now, ticks, kvConfigured, pkce, sessions, idpIssued, issuedAt,
                 verifierCtr, takes, storedUnder>>
  /\ UNCHANGED keyVars

\* ------------------------------------------------------ the directory
\* The panel registers, soft-deletes or removes a user.
SetUserRow(u, row) ==
  /\ users[u] # row
  /\ users' = [users EXCEPT ![u] = row]
  /\ UNCHANGED <<now, ticks, authVars, api_keys, changes, kreq>>

\* --------------------------------------------------------- key management
\* generateApiKey: fresh random key and id, one INSERT.
GenerateApiKey(userId, name, expiresInDays) ==
  /\ Len(api_keys) < MaxKeys
  /\ LET apiKeyId == Len(api_keys) + 1
         apiKey == ApiKeyOf(apiKeyId)
         record == NewKeyRecord(apiKeyId, apiKey, userId, name, expiresInDays, now) IN
     /\ api_keys' = Append(api_keys, record)
     /\ changes' = 1
  /\ UNCHANGED <<now, ticks, authVars, users, kreq>>

\* revokeApiKey: one UPDATE; the call returns changes' > 0.
RevokeApiKey(apiKeyId, userId) ==
  /\ api_keys' = revokeApiKey(api_keys, apiKeyId, userId)
  /\ changes' = Changes(api_keys, apiKeyId, userId)
  /\ UNCHANGED <<now, ticks, authVars, users, kreq>>

\* listUserApiKeys: one SELECT, which returns one of ListOrders.
ListUserApiKeys(userId) ==
  /\ ListOrders(api_keys, userId) # {}
  /\ UNCHANGED <<now, ticks, authVars, api_keys, users, changes, kreq>>

\* ----------------------------------------------------------- API-key path
\* handleApiKeyRequest up to the first query: the test for a key, then
\* validateApiKey's format test and hash.
handleApiKeyRequest(q, req, apiKey) ==
  LET r == [req EXCEPT !.apiKey = apiKey, !.keyPath = TRUE] IN
  IF Length(apiKey) = 0
  THEN [kreq EXCEPT ![q] =
          [r EXCEPT !.pc = "done", !.cause = "missing",
                    !.resp = jsonError("Missing Authorization header", 401)]]
  ELSE IF ~WellFormed(apiKey)
  THEN Reject(q, r, "format")
  ELSE [kreq EXCEPT ![q] = [r EXCEPT !.pc = "k_lookup",
                                     !.apiKeyHash = hashApiKey(apiKey),
                                     !.hashed = @ + 1]]

StartKey(q, apiKey) ==
  /\ kreq[q].pc \in {"idle", "done"}
  /\ kreq' = handleApiKeyRequest(q, IdleKey, apiKey)
  /\ UNCHANGED <<now, ticks, authVars, api_keys, users, changes>>

\* The worker's fetch: one test of the path and the Authorization header,
\* then the API-key handler or the OAuth provider.
Fetch(q, pathname, authHeader) ==
  /\ kreq[q].pc \in {"idle", "done"}
  /\ LET req == [IdleKey EXCEPT !.pathname = pathname, !.authHeader = authHeader] IN
     kreq' = IF isApiKeyRequest(pathname, authHeader)
             THEN handleApiKeyRequest(q, req, BearerToken(authHeader))
             ELSE [kreq EXCEPT ![q] = [req EXCEPT !.pc = "done", !.oauthPath = TRUE]]
  /\ UNCHANGED <<now, ticks, authVars, api_keys, users, changes>>

\* The lookup by hash, then the tests of the record.
KeyLookup(q) ==
  /\ kreq[q].pc = "k_lookup"
  /\ LET keyRecord == SelectKeyByHash(api_keys, kreq[q].apiKeyHash)
         r == [kreq[q] EXCEPT !.keyRecord = keyRecord, !.t = now, !.queries = @ + 1] IN
     kreq' = IF KeyRejected(keyRecord)
             THEN Reject(q, r, IF keyRecord = NoKey THEN "miss" ELSE "inactive")
             ELSE IF KeyExpired(keyRecord, now) THEN Reject(q, r, "expired")
             ELSE [kreq EXCEPT ![q] = [r EXCEPT !.pc = "k_user"]]
  /\ UNCHANGED <<now, ticks, authVars, api_keys, users, changes>>

\* The lookup of the owner.
KeyUser(q) ==
  /\ kreq[q].pc = "k_user"
  /\ LET user == SelectUserById(users, kreq[q].keyRecord.user_id)
         r == [kreq[q] EXCEPT !.user = user, !.queries = @ + 1,
                              !.ownerRow = users[kreq[q].keyRecord.user_id]] IN
     kreq' = IF OwnerRejected(user) THEN Reject(q, r, "owner")
             ELSE [kreq EXCEPT ![q] = [r EXCEPT !.pc = "k_update"]]
  /\ UNCHANGED <<now, ticks, authVars, api_keys, users, changes>>

\* An update whose failure reaches the handler's catch.
AfterUpdate_propagating(r, threw) ==
  IF threw
  THEN [Returned(r) EXCEPT !.queries = @ + 1, !.result = NoIdentity,
                           !.resp = jsonError("Internal server error", 500)]
  ELSE [Returned(r) EXCEPT !.queries = @ + 1,
                           !.result = [userId |-> r.keyRecord.user_id,
                                       email |-> r.user.email],
                           !.resp = Respond(200, "jsonrpc")]

\* validateApiKey after the update statement ran or threw: the catch is
\* empty, and the return is the same.
AfterUpdate(r, threw) ==
  [Returned(r) EXCEPT !.queries = @ + 1,
                      !.result = [userId |-> r.keyRecord.user_id,
                                  email |-> r.user.email],
                      !.resp = Respond(200, "jsonrpc")]

\* The update of last_used_at, whose failure is swallowed, and the return.
KeyUpdate(q) ==
  /\ kreq[q].pc = "k_update"
  /\ LET r == kreq[q] IN
     \/ /\ api_keys' = TouchKey(api_keys, r.keyRecord.api_key_id, now)
        /\ changes' = 1
        /\ kreq' = [kreq EXCEPT ![q] = AfterUpdate(r, FALSE)]
     \/ /\ UNCHANGED <<api_keys, changes>>
        /\ kreq' = [kreq EXCEPT ![q] = AfterUpdate(r, TRUE)]
  /\ UNCHANGED <<now, ticks, authVars, users>>

\* ------------------------------------------------------------ specifications
\* Direct-provider flow: requests without a session cookie.
PkceStep ==
  \/ \E d \in PkceTickSteps : Tick(d, MaxTicks)
  \/ \E s \in States : StoreVerifier(s)
  \/ \E p \in Procs : AuthorizeStore(p)
  \/ \E p \in Procs : CallbackGet(p)
  \/ \E p \in Procs : CallbackDelete(p)
  \/ \E p \in Procs : CallbackExchange(p)
  \/ \E p \in Procs : CallbackUser(p)

PkceStart(p) ==
  \/ \E req \in OAuthReqs : StartAuthorize(p, req, NoCookie)
  \/ \E s \in States, code \in {NoCode, "code1"} : StartCallback(p, s, code)

Next ==
  \/ PkceStep
  \/ \E p \in Procs : PkceStart(p)

Spec == Init /\ [][Next]_vars

\* The same, one request at a time.
NextSeq ==
  \/ PkceStep
  \/ \E p \in Procs : AllIdle /\ PkceStart(p)

SpecSeq == Init /\ [][NextSeq]_vars

\* Callbacks with any state parameter, also one that does not decode.
NextCallback ==
  \/ \E s \in States : StoreVerifier(s)
  \/ \E p \in Procs, s \in States \cup RawStates, code \in {NoCode, "code1"} :
       StartCallback(p, s, code)
  \/ \E p \in Procs : CallbackGet(p)
  \/ \E p \in Procs : CallbackDelete(p)
  \/ \E p \in Procs : CallbackExchange(p)
  \/ \E p \in Procs : CallbackUser(p)

SpecCallback == Init /\ [][NextCallback]_vars

\* Centralized-login flow: the namespace is bound.  The scope of the client
\* request plays no part on this path.
InitSession == Init /\ kvConfigured
SessionReqs == { r \in OAuthReqs : r.scope = "read" }

NextSession ==
  \/ \E d \in SessionTickSteps : Tick(d, MaxSessionTicks)
  \/ \E k \in Tokens, email \in Emails, withRefresh \in BOOLEAN : PanelLogin(k, email, withRefresh)
  \/ \E k \in Tokens : PeerTouch(k)
  \/ \E p \in Procs, req \in SessionReqs, cookie \in Tokens \cup {NoCookie} : StartAuthorize(p, req, cookie)
  \/ \E p \in Procs : ValidateGet(p)
  \/ \E p \in Procs : ValidateRefresh(p)
  \/ \E p \in Procs : ValidateRefreshPut(p)
  \/ \E p \in Procs : ValidateTouchPut(p)
  \/ \E p \in Procs : AuthorizeUser(p)

SpecSession == InitSession /\ [][NextSession]_vars

\* The same with session puts that can reject.
NextPutFail ==
  \/ NextSession
  \/ \E p \in Procs : ValidateTouchPutThrows(p)
  \/ \E p \in Procs : ValidateRefreshPutThrows(p)

SpecPutFail == InitSession /\ [][NextPutFail]_vars

\* The API-key path: concurrent requests against one key of user u1, while
\* the clock moves, the key is revoked and the owner's row changes.
NextKeys ==
  \/ \E d \in KeyTickSteps : Tick(d, MaxKeyTicks)
  \/ \E row \in UserRows : SetUserRow("u1", row)
  \/ \E name \in Names, days \in ExpiresInDays :
       api_keys = <<>> /\ GenerateApiKey("u1", name, days)
  \/ \E id \in KeyIds, u \in UserIds : RevokeApiKey(id, u)
  \/ \E u \in UserIds : ListUserApiKeys(u)
  \/ \E q \in KeyProcs, apiKey \in Candidates(Len(api_keys)) : StartKey(q, apiKey)
  \/ \E q \in KeyProcs : KeyLookup(q)
  \/ \E q \in KeyProcs : KeyUser(q)
  \/ \E q \in KeyProcs : KeyUpdate(q)

SpecKeys == InitSession /\ [][NextKeys]_vars

\* Key management: several keys of two owners and one request at a time,
\* with a fixed clock and directory.
NextKeyAdmin ==
  \/ \E u \in UserIds, name \in Names, days \in ExpiresInDays : GenerateApiKey(u, name, days)
  \/ \E id \in KeyIds, u \in UserIds : RevokeApiKey(id, u)
  \/ \E u \in UserIds : ListUserApiKeys(u)
  \/ \E apiKey \in Candidates(Len(api_keys)) : StartKey("k1", apiKey)
  \/ KeyLookup("k1")
  \/ KeyUser("k1")
  \/ KeyUpdate("k1")

SpecKeyAdmin == InitSession /\ [][NextKeyAdmin]_vars

\* The router: requests with and without a header, with the token after
\* "Bearer ", after another scheme and bare, on /mcp and elsewhere.
Pathnames == {"/mcp", "/authorize"}
OAuthToken == [prefix |-> <<"e", "y", "J">>, head |-> 0, tail |-> 0, hexLen |-> 40]
Schemes == {Bearer, <<>>, <<"B", "a", "s", "i", "c", " ">>}
AuthHeaders(n) ==
  {NoHeader} \cup
    { [scheme |-> s, token |-> k] :
        s \in Schemes, k \in {ApiKeyOf(i) : i \in 0 .. n} \cup {OAuthToken, NoApiKey} }

NextRouter ==
  \/ \E name \in Names : api_keys = <<>> /\ GenerateApiKey("u1", name, <<>>)
  \/ \E q \in KeyProcs, pathname \in Pathnames, h \in AuthHeaders(Len(api_keys)) :
       Fetch(q, pathname, h)
  \/ \E q \in KeyProcs : KeyLookup(q)
  \/ \E q \in KeyProcs : KeyUser(q)
  \/ \E q \in KeyProcs : KeyUpdate(q)

SpecRouter == InitSession /\ [][NextRouter]_vars

\* The three ways to authenticate, one request at a time: the session
\* shortcut of /authorize, the code exchange of /callback, and an API key.
\* The login and the key generation happen at time 0; the clock moves
\* between requests, first past the login and then past the session's
\* expires_at, so that a touched session is refreshed.
AllQuiet == AllIdle /\ \A q \in KeyProcs : kreq[q].pc \in {"idle", "done"}
DirectoryTickSteps == {2, SESSION_DURATION_SECONDS - 1}

DirectoryReq == [clientId |-> "c1", scope |-> "read"]

NextDirectory ==
  \/ \E d \in DirectoryTickSteps :
       AllQuiet /\ (d = 2) = (ticks = 0) /\ Tick(d, MaxSessionTicks)
  \/ \E k \in Tokens, email \in Emails : now = 0 /\ PanelLogin(k, email, TRUE)
  \/ \E k \in Tokens : AllQuiet /\ PeerTouch(k)
  \/ verifierCtr = 0 /\ StoreVerifier(Btoa(DirectoryReq))
  \/ \E row \in UserRows : SetUserRow("u1", row)
  \/ \E name \in Names :
       now = 0 /\ api_keys = <<>> /\ GenerateApiKey("u1", name, <<>>)
  \/ \E cookie \in Tokens : AllQuiet /\ StartAuthorize("p1", DirectoryReq, cookie)
  \/ AllQuiet /\ StartCallback("p2", Btoa(DirectoryReq), "code1")
  \/ AllQuiet /\ api_keys # <<>> /\ StartKey("k1", ApiKeyOf(1))
  \/ ValidateGet("p1")
  \/ ValidateRefresh("p1")
  \/ ValidateRefreshPut("p1")
  \/ ValidateTouchPut("p1")
  \/ AuthorizeUser("p1")
  \/ CallbackGet("p2")
  \/ CallbackDelete("p2")
  \/ CallbackExchange("p2")
  \/ CallbackUser("p2")
  \/ KeyLookup("k1")
  \/ KeyUser("k1")
  \/ KeyUpdate("k1")

SpecDirectory == InitSession /\ [][NextDirectory]_vars

\* ------------------------------------------------------------------- claims
PkceMessage == "Invalid or expired PKCE verification"
Verifiers == 1 .. MaxVerifiers
IsCallback(p) == proc[p].handler = "callback"
IsAuthorize(p) == proc[p].handler = "authorize"
HoldsVerifier(p) == IsCallback(p) /\ proc[p].codeVerifier # NoVerifier
RedirectsToProvider(p) ==
  /\ IsAuthorize(p)
  /\ proc[p].pc = "done"
  /\ proc[p].resp.status = 302
  /\ Len(proc[p].resp.location) = 3

\* C1: a stored verifier is obtained by at most one callback, however the
\* gets and deletes of two callbacks for the same state interleave.
C1_SingleConsumption == \A v \in Verifiers : takes[v] <= 1

\* C2: when authorize answers with the redirect to the identity provider
\* carrying state s, the verifier it generated has been put under pkce:{s}.
C2_FallbackPersistsVerifier ==
  \A p \in Procs :
    RedirectsToProvider(p) =>
      /\ storedUnder[proc[p].codeVerifier] # <<>>
      /\ storedUnder[proc[p].codeVerifier][1] = proc[p].state

\* C3: with one request at a time, a stored verifier is returned by at most
\* one getCodeVerifier, that call returns the value put under its own state
\* less than 600 seconds after the put, and once the call is over the record
\* is gone, so every later call for the state finds nothing.
C3_OneTimeSequential ==
  [][ /\ \A v \in Verifiers : takes'[v] <= 1
      /\ \A p \in Procs :
           (proc[p].pc = "cb_get" /\ proc'[p].codeVerifier # NoVerifier) =>
             /\ storedUnder[proc'[p].codeVerifier] # <<>>
             /\ storedUnder[proc'[p].codeVerifier][1] = proc[p].state
             /\ now < storedUnder[proc'[p].codeVerifier][2] + 600
      /\ \A p \in Procs :
           (proc[p].pc = "cb_delete" /\ proc'[p].pc # "cb_delete") =>
             pkce'[proc[p].state] = NoEntry ]_vars

C3_Witness ==
  \E p, q \in Procs :
    /\ HoldsVerifier(p) /\ proc[p].pc = "done"
    /\ IsCallback(q) /\ proc[q].pc = "done" /\ proc[q].state = proc[p].state
    /\ proc[q].code # NoCode
    /\ proc[q].codeVerifier = NoVerifier
    /\ kvConfigured
    /\ takes[proc[p].codeVerifier] = 1

\* C4: a callback that finds no verifier for its state answers 400 with the
\* PKCE message and calls neither the code exchange nor
\* completeAuthorization; the exchange is only called with a verifier that
\* was put under that same state.
C4_NoExchangeWithoutVerifier ==
  \A p \in Procs :
    IsCallback(p) =>
      /\ (proc[p].pc = "done" /\ proc[p].oauthReq.clientId # "" /\ proc[p].code # NoCode
            /\ proc[p].codeVerifier = NoVerifier)
           => (proc[p].resp.status = 400 /\ proc[p].resp.body = PkceMessage)
      /\ proc[p].resp.body = PkceMessage
           => (proc[p].resp.status = 400 /\ ~proc[p].exchanged /\ ~proc[p].completed)
      /\ (proc[p].pc \in {"cb_exchange", "cb_user"} \/ proc[p].exchanged \/ proc[p].completed)
           => /\ proc[p].codeVerifier # NoVerifier
              /\ storedUnder[proc[p].codeVerifier] # <<>>
              /\ storedUnder[proc[p].codeVerifier][1] = proc[p].state

C4_Witness ==
  \E p \in Procs :
    /\ IsCallback(p) /\ proc[p].pc = "done"
    /\ proc[p].resp.body = PkceMessage
    /\ kvConfigured
    /\ pkce[proc[p].state] # NoEntry
    /\ ~proc[p].exchanged

SessionFields ==
  {"user_id", "email", "expires_at", "refresh_token", "created_at", "last_accessed_at"}
ThirtyDays == 30 * 24 * 60 * 60
Valid == [valid |-> TRUE, reason |-> "VALID"]
Refreshed(p) ==
  /\ IsAuthorize(p)
  /\ proc[p].pc \in {"a_user", "done"}
  /\ proc[p].result = Valid
  /\ proc[p].newAuth # NoToken

\* C5: validations racing to refresh the same session leave a whole record:
\* no write removes the record or changes user_id, email or created_at; a
\* refresh installs the token its own exchange returned together with the
\* expires_at it computed; and the stored refresh_token and expires_at always
\* come from one and the same exchange.
C5_ConcurrentRefreshIntegrity ==
  [][ \A k \in Tokens :
        /\ sessions[k] # NoEntry =>
             /\ sessions'[k] # NoEntry
             /\ sessions'[k].val.user_id = sessions[k].val.user_id
             /\ sessions'[k].val.email = sessions[k].val.email
             /\ sessions'[k].val.created_at = sessions[k].val.created_at
        /\ sessions'[k] # NoEntry =>
             /\ DOMAIN sessions'[k].val = SessionFields
             /\ sessions'[k].val.expires_at =
                  IF sessions'[k].val.refresh_token = NoToken
                  THEN sessions'[k].val.created_at + ThirtyDays
                  ELSE issuedAt'[sessions'[k].val.refresh_token] + ThirtyDays
        /\ \A p \in Procs :
             (proc[p].sessionToken = k /\ proc[p].pc = "v_refresh_put"
                /\ proc'[p].pc # "v_refresh_put") =>
               /\ sessions'[k].val.refresh_token = proc[p].newAuth
               /\ sessions'[k].val.expires_at = issuedAt[proc[p].newAuth] + ThirtyDays ]_vars

C5_Witness ==
  \E p, q \in Procs :
    /\ p # q
    /\ Refreshed(p) /\ Refreshed(q)
    /\ proc[p].sessionToken = proc[q].sessionToken
    /\ proc[p].session = proc[q].session
    /\ proc[p].newAuth # proc[q].newAuth
    /\ sessions[proc[p].sessionToken].val = proc[q].newSession

C7_RefreshFailedDeletesSession ==
  \A p \in Procs :
    (proc[p].pc = "done" /\ proc[p].result.reason = "REFRESH_FAILED") =>
      /\ sessions[proc[p].sessionToken] = NoEntry
      /\ proc[p].resp = PanelLoginRedirect(proc[p])

\* C8: no record gives NO_SESSION, a record with expires_at < now and no
\* refresh token gives EXPIRED, and neither outcome calls the identity
\* provider or writes the session store.
C8_OutcomesWithoutRefresh ==
  \A p \in Procs :
    /\ proc[p].result.reason = "NO_SESSION" =>
         /\ proc[p].session = NoSession
         /\ proc[p].upstream = 0 /\ proc[p].writes = 0
    /\ proc[p].result.reason = "EXPIRED" =>
         /\ proc[p].session # NoSession
         /\ proc[p].session.expires_at < proc[p].t
         /\ proc[p].session.refresh_token = NoToken
         /\ proc[p].upstream = 0 /\ proc[p].writes = 0
    /\ (IsAuthorize(p) /\ proc[p].pc = "done" /\ proc[p].oauthReq.clientId # ""
          /\ proc[p].sessionToken # NoCookie /\ kvConfigured) =>
         /\ proc[p].session = NoSession => proc[p].result.reason = "NO_SESSION"
         /\ (proc[p].session # NoSession /\ proc[p].session.refresh_token = NoToken) =>
              (proc[p].result.reason = "EXPIRED" <=> proc[p].session.expires_at < proc[p].t)

C8_Witness ==
  \E p, q \in Procs :
    /\ proc[p].pc = "done" /\ proc[p].result.reason = "EXPIRED"
    /\ proc[q].pc = "done" /\ proc[q].result.reason = "NO_SESSION"
    /\ proc[p].upstream = 0 /\ proc[q].upstream = 0

\* C9: the put that follows a successful refresh exchange stores, under the
\* same token, the record read with refresh_token replaced by the token the
\* exchange returned and expires_at = time of the exchange + 30 days, with a
\* storage TTL of 30 days; user_id, email and created_at are as read, and the
\* validation returns VALID.
C9_RefreshRotation ==
  [][ \A p \in Procs :
        (proc[p].pc = "v_refresh_put" /\ proc'[p].pc # "v_refresh_put") =>
          /\ proc'[p].result = Valid
          /\ proc'[p].upstream = 1
          /\ sessions'[proc[p].sessionToken].exp = now + ThirtyDays
          /\ sessions'[proc[p].sessionToken].val =
               [ user_id |-> proc[p].session.user_id,
                 email |-> proc[p].session.email,
                 created_at |-> proc[p].session.created_at,
                 refresh_token |-> proc[p].newAuth,
                 expires_at |-> proc[p].t + ThirtyDays,
                 last_accessed_at |-> proc[p].t ]
          /\ proc[p].newAuth # proc[p].session.refresh_token
          /\ proc[p].session.expires_at < proc[p].t ]_vars

C9_Witness ==
  \E p \in Procs :
    /\ Refreshed(p)
    /\ sessions[proc[p].sessionToken].val.refresh_token = proc[p].newAuth
    /\ sessions[proc[p].sessionToken].val.refresh_token # proc[p].session.refresh_token

\* C10: a session read with expires_at >= now is touched, not refreshed: no
\* identity-provider call, VALID, and the put stores the record read with
\* only last_accessed_at changed (to the time of the check) and a storage TTL
\* of 30 days from the put.
C10_TouchOnly ==
  [][ \A p \in Procs :
        /\ (proc[p].pc = "v_get" /\ proc'[p].pc # "v_get"
              /\ KvVisible(sessions[proc[p].sessionToken])
              /\ sessions[proc[p].sessionToken].val.expires_at >= now) =>
             /\ proc'[p].pc = "v_touch_put"
             /\ sessions' = sessions
        /\ (proc[p].pc = "v_touch_put" /\ proc'[p].pc # "v_touch_put") =>
             /\ proc'[p].result = Valid
             /\ proc'[p].upstream = 0
             /\ proc[p].session.expires_at >= proc[p].t
             /\ sessions'[proc[p].sessionToken].exp = now + ThirtyDays
             /\ sessions'[proc[p].sessionToken].val =
                  [ user_id |-> proc[p].session.user_id,
                    email |-> proc[p].session.email,
                    created_at |-> proc[p].session.created_at,
                    refresh_token |-> proc[p].session.refresh_token,
                    expires_at |-> proc[p].session.expires_at,
                    last_accessed_at |-> proc[p].t ] ]_vars

C10_Witness ==
  \E p \in Procs :
    /\ IsAuthorize(p) /\ proc[p].pc \in {"a_user", "done"}
    /\ proc[p].result = Valid
    /\ proc[p].newAuth = NoToken
    /\ proc[p].t > proc[p].session.last_accessed_at
    /\ sessions[proc[p].sessionToken].val = proc[p].updatedSession
    /\ sessions[proc[p].sessionToken].exp > proc[p].session.expires_at + 1

Touched(p) ==
  /\ IsAuthorize(p)
  /\ proc[p].pc \in {"a_user", "done"}
  /\ proc[p].result = Valid
  /\ proc[p].newAuth = NoToken

\* C11 as stated: a validation that follows a successful one and reads the
\* record while its storage TTL has not run out (it reads exactly what the
\* earlier validation stored) returns VALID.
C11_TwiceWithinTtl ==
  \A p, q \in Procs :
    (/\ p # q
     /\ Touched(q)
     /\ proc[p].sessionToken = proc[q].sessionToken
     /\ proc[p].session = proc[q].updatedSession
     /\ proc[p].result # NoResult)
      => proc[p].result = Valid

\* C11, amended: every validation that reads the record while it is stored
\* and its expires_at has not passed goes on to return VALID, however many
\* validations came before it, and its put sets the storage lifetime of the
\* record to 30 days from the time of the put, never shortening it.
C11_TwiceWithinExpiry ==
  [][ \A p \in Procs :
        LET k == proc[p].sessionToken IN
        /\ (proc[p].pc = "v_get" /\ proc'[p].pc # "v_get"
              /\ KvVisible(sessions[k]) /\ ~(sessions[k].val.expires_at < now)) =>
             proc'[p].pc = "v_touch_put"
        /\ (proc[p].pc = "v_touch_put" /\ proc'[p].pc # "v_touch_put") =>
             /\ proc'[p].result = Valid
             /\ sessions'[k] # NoEntry
             /\ sessions'[k].exp = now + ThirtyDays
             /\ sessions[k] # NoEntry => sessions'[k].exp >= sessions[k].exp ]_vars

C11_Witness ==
  \E p, q \in Procs :
    /\ p # q
    /\ Touched(p) /\ Touched(q)
    /\ proc[p].sessionToken = proc[q].sessionToken
    /\ proc[p].session = proc[q].updatedSession
    /\ proc[p].t > proc[q].t
    /\ sessions[proc[p].sessionToken].val = proc[p].updatedSession
    /\ sessions[proc[p].sessionToken].exp = proc[p].t + ThirtyDays
    /\ sessions[proc[p].sessionToken].exp > proc[q].t + ThirtyDays

\* C12: a put that fails while touching a session that is not expired does
\* not fail the validation: the result is still VALID and the authorize
\* request goes on to the user lookup instead of ending in an error.
C12_TouchFailureSwallowed ==
  \A p \in Procs :
    (proc[p].thrown /\ proc[p].updatedSession # NoSession) =>
      /\ proc[p].result = Valid
      /\ proc[p].resp.status # 500

\* C13: completeAuthorization is only reached, on the session shortcut and
\* on the callback, after a directory lookup that found the user present and
\* not soft-deleted, and validateApiKey only returns an identity after its
\* owner lookup found the same.
C13_DirectoryCheckOnEveryPath ==
  /\ \A p \in Procs : proc[p].completed => proc[p].userRow = "active"
  /\ \A q \in KeyProcs :
       (kreq[q].pc = "k_update" \/ kreq[q].result # NoIdentity) =>
         kreq[q].ownerRow = "active"

C13_Witness ==
  /\ \E p, c \in Procs :
       /\ IsAuthorize(p) /\ proc[p].pc = "done" /\ proc[p].result = Valid
       /\ proc[p].userRow = "deleted" /\ ~proc[p].completed
       /\ IsCallback(c) /\ proc[c].pc = "done" /\ proc[c].exchanged
       /\ proc[c].userRow = "absent" /\ ~proc[c].completed
  /\ \E q \in KeyProcs :
       /\ kreq[q].pc = "done" /\ kreq[q].ownerRow = "deleted"
       /\ kreq[q].result = NoIdentity
       /\ api_keys[1].last_used_at # NoUse

\* C14: a lookup that runs against a user who is absent from the directory
\* ends in 403 with the registration page, and one that runs against a user
\* who is present but soft-deleted ends in 403 with the deleted-account page.
C14_LookupDistinguishes ==
  \A p \in Procs :
    /\ (proc[p].pc = "done" /\ proc[p].userRow = "absent") =>
         proc[p].resp = Respond(403, "registration_page")
    /\ (proc[p].pc = "done" /\ proc[p].userRow = "deleted") =>
         proc[p].resp = Respond(403, "deleted_page")

\* A step of request q validating the key with id i, taken while the clock
\* still shows the time the key was generated and the key is not revoked.
Identity(i) ==
  [userId |-> api_keys[i].user_id, email |-> UserEmail[api_keys[i].user_id]]
FreshKeyStep(q, i) ==
  /\ i \in DOMAIN api_keys
  /\ kreq[q].apiKey = ApiKeyOf(i)
  /\ kreq[q].pc \in {"k_lookup", "k_user", "k_update"}
  /\ kreq'[q] # kreq[q]
  /\ api_keys[i].created_at = now
  /\ api_keys[i].is_active = 1
Advances(q, i) ==
  /\ kreq[q].pc = "k_lookup" => kreq'[q].pc = "k_user"
  /\ kreq[q].pc = "k_user" => kreq'[q].pc = "k_update"
  /\ kreq[q].pc = "k_update" => kreq'[q].result = Identity(i)

\* C15 as stated: whatever name and expiresInDays a key was generated with,
\* a validation of it that runs immediately after the generation passes
\* every test and returns the owner's userId and email.
C15_ValidateAfterGenerate ==
  [][ \A q \in KeyProcs, i \in KeyIds : FreshKeyStep(q, i) => Advances(q, i) ]_vars

\* C15, amended: a key generated with expiresInDays omitted, 0 or positive
\* (its expires_at is unset or not before its created_at), whose owner is
\* in the directory and not soft-deleted, validates immediately after the
\* generation and yields the owner's userId and email.
C15_ValidateAfterGenerateUnexpired ==
  [][ \A q \in KeyProcs, i \in KeyIds :
        ( /\ FreshKeyStep(q, i)
          /\ \/ api_keys[i].expires_at = NoExpiry
             \/ api_keys[i].expires_at >= api_keys[i].created_at
          /\ kreq[q].pc = "k_user" => users[api_keys[i].user_id] = "active" )
        => Advances(q, i) ]_vars

C15_Witness ==
  \E q \in KeyProcs :
    /\ api_keys # <<>>
    /\ kreq[q].pc = "done"
    /\ kreq[q].apiKey = ApiKeyOf(1)
    /\ kreq[q].result = Identity(1)
    /\ api_keys[1].created_at = now
    /\ now > 0
    /\ api_keys[1].expires_at = now + DAY
    /\ api_keys[1].last_used_at = now
    /\ api_keys[1].is_active = 1

\* C16: a revoked key stays revoked and stored whatever is generated,
\* validated, listed or revoked afterwards, and every validation whose
\* lookup finds it revoked is rejected, expired or not.
C16_RevocationPermanent ==
  [][ /\ \A i \in DOMAIN api_keys :
           /\ i \in DOMAIN api_keys'
           /\ api_keys'[i].api_key_id = api_keys[i].api_key_id
           /\ api_keys'[i].api_key_hash = api_keys[i].api_key_hash
           /\ api_keys[i].is_active = 0 => api_keys'[i].is_active = 0
      /\ \A q \in KeyProcs, i \in DOMAIN api_keys :
           ( /\ kreq[q].pc = "k_lookup" /\ kreq'[q].pc # "k_lookup"
             /\ kreq[q].apiKey = ApiKeyOf(i)
             /\ api_keys[i].is_active = 0 )
           => /\ kreq'[q].pc = "done"
              /\ kreq'[q].result = NoIdentity
              /\ kreq'[q].resp.status = 401 ]_vars

C16_Witness ==
  /\ Len(api_keys) = 2
  /\ api_keys[1].is_active = 0 /\ api_keys[1].expires_at = NoExpiry
  /\ api_keys[2].is_active = 0 /\ api_keys[2].expires_at < now
  /\ kreq["k1"].pc = "done"
  /\ kreq["k1"].apiKey = ApiKeyOf(1)
  /\ kreq["k1"].cause = "inactive"
  /\ kreq["k1"].result = NoIdentity

\* The records a revoke of id by userId is about.
Matching(apiKeyId, userId) ==
  { i \in DOMAIN api_keys :
      api_keys[i].api_key_id = apiKeyId /\ api_keys[i].user_id = userId }

\* C17: a revoke of id by userId that matches no record of that id and
\* that owner returns false and leaves the table as it was; one that
\* matches returns true and changes is_active of that one record to 0 and
\* nothing else; no record is ever removed.
C17_RevokeScoped ==
  [][ \A id \in KeyIds, u \in UserIds :
        RevokeApiKey(id, u) =>
          /\ DOMAIN api_keys' = DOMAIN api_keys
          /\ Cardinality(Matching(id, u)) <= 1
          /\ (changes' > 0) = (Matching(id, u) # {})
          /\ Matching(id, u) = {} => api_keys' = api_keys
          /\ \A i \in DOMAIN api_keys :
               api_keys'[i] = IF i \in Matching(id, u)
                              THEN [api_keys[i] EXCEPT !.is_active = 0]
                              ELSE api_keys[i] ]_vars

C17_Witness ==
  /\ Len(api_keys) = 2
  /\ api_keys[1].user_id = "u1" /\ api_keys[1].is_active = 0
  /\ api_keys[2].user_id = "u2" /\ api_keys[2].is_active = 1
  /\ changes = 0

\* The conditions of the key contract, on a candidate and on a record.
HasFormat(apiKey) == apiKey.prefix = WTYK /\ Length(apiKey) = KeyLength
StoredUnder(apiKey) ==
  { i \in DOMAIN api_keys : api_keys[i].api_key_hash = hashApiKey(apiKey) }
Usable(i) ==
  /\ api_keys[i].is_active = 1
  /\ api_keys[i].expires_at = NoExpiry \/ ~(api_keys[i].expires_at < now)
RejectedNext(q) == kreq'[q].pc = "done" /\ kreq'[q].result = NoIdentity

\* C18: a validation goes on past the format test exactly when the
\* candidate has the prefix and the length, past the lookup exactly when a
\* stored record has its hash, is active and is not past its expires_at,
\* and past the owner test exactly when the owner is present and not
\* soft-deleted; it then returns that record's user_id with the owner's
\* email, and it returns no identity in any other way.
C18_ValidateCharacterised ==
  [][ \A q \in KeyProcs :
        /\ (kreq[q].pc \in {"idle", "done"} /\ kreq'[q] # kreq[q]) =>
             IF HasFormat(kreq'[q].apiKey)
             THEN kreq'[q].pc = "k_lookup" ELSE RejectedNext(q)
        /\ (kreq[q].pc = "k_lookup" /\ kreq'[q].pc # "k_lookup") =>
             IF \E i \in StoredUnder(kreq[q].apiKey) : Usable(i)
             THEN /\ kreq'[q].pc = "k_user"
                  /\ \E i \in StoredUnder(kreq[q].apiKey) :
                       kreq'[q].keyRecord.user_id = api_keys[i].user_id
             ELSE RejectedNext(q)
        /\ (kreq[q].pc = "k_user" /\ kreq'[q].pc # "k_user") =>
             IF users[kreq[q].keyRecord.user_id] = "active"
             THEN kreq'[q].pc = "k_update" ELSE RejectedNext(q)
        /\ (kreq[q].pc = "k_update" /\ kreq'[q].pc # "k_update") =>
             /\ kreq'[q].pc = "done"
             /\ kreq'[q].result =
                  [userId |-> kreq[q].keyRecord.user_id,
                   email |-> UserEmail[kreq[q].keyRecord.user_id]]
        /\ kreq'[q].result # NoIdentity =>
             kreq[q].pc = "k_update" \/ kreq'[q] = kreq[q] ]_vars

C18_Witness ==
  /\ api_keys # <<>>
  /\ api_keys[1].expires_at = now /\ now > 0
  /\ api_keys[1].last_used_at = now
  /\ kreq["k1"].pc = "done" /\ kreq["k1"].apiKey = ApiKeyOf(1)
  /\ kreq["k1"].result = Identity(1)
  /\ kreq["k2"].pc = "done" /\ kreq["k2"].apiKey = ApiKeyOf(1)
  /\ kreq["k2"].cause = "owner" /\ kreq["k2"].result = NoIdentity

\* The tests of validateApiKey that can reject a key.
Causes == {"format", "miss", "inactive", "expired", "owner"}
OnKeyPath(q) == isApiKeyRequest("/mcp", AuthHeader(kreq[q].apiKey))
RejectedFor(q, causes) ==
  /\ kreq[q].pc = "done" /\ OnKeyPath(q) /\ kreq[q].cause \in causes

\* C19: every request on the API-key path whose key fails one of the five
\* tests gets status 401 and the same message, so the responses to any two
\* rejected requests are equal whichever tests rejected them.
C19_UniformRejection ==
  /\ \A q \in KeyProcs :
       RejectedFor(q, Causes) =>
         /\ kreq[q].resp.status = 401
         /\ kreq[q].resp.body = [error |-> "Invalid or expired API key"]
  /\ \A q, r \in KeyProcs :
       (RejectedFor(q, Causes) /\ RejectedFor(r, Causes)) =>
         kreq[q].resp = kreq[r].resp

C19_Witness ==
  /\ RejectedFor("k1", {"inactive"})
  /\ RejectedFor("k2", {"format"})
  /\ kreq["k1"].resp = kreq["k2"].resp

\* C20: a request whose key has the wrong prefix or the wrong length ends
\* rejected with hashApiKey never called and no statement issued.
C20_MalformedRejectedEarly ==
  \A q \in KeyProcs :
    (kreq[q].pc # "idle" /\ ~HasFormat(kreq[q].apiKey)) =>
      /\ kreq[q].pc = "done"
      /\ kreq[q].result = NoIdentity
      /\ kreq[q].hashed = 0
      /\ kreq[q].queries = 0

C20_Witness ==
  /\ api_keys # <<>>
  /\ kreq["k1"].pc = "done" /\ kreq["k1"].cause = "format"
  /\ kreq["k1"].apiKey.prefix = WTYK /\ Length(kreq["k1"].apiKey) = KeyLength - 1
  /\ kreq["k2"].pc = "done" /\ kreq["k2"].cause = "format"
  /\ kreq["k2"].apiKey.prefix # WTYK /\ Length(kreq["k2"].apiKey) = KeyLength
  /\ kreq["k1"].hashed = 0 /\ kreq["k2"].queries = 0

\* C21: a validation that reaches the update of last_used_at and whose
\* update fails (the record keeps an older last_used_at) still returns the
\* record's user_id and the owner's email, and the request is not answered
\* with an error.
C21_UpdateFailureSwallowed ==
  [][ \A q \in KeyProcs :
        ( /\ kreq[q].pc = "k_update" /\ kreq'[q].pc # "k_update"
          /\ api_keys' = api_keys
          /\ \E i \in DOMAIN api_keys :
               /\ api_keys[i].api_key_id = kreq[q].keyRecord.api_key_id
               /\ api_keys[i].last_used_at # now )
        => /\ kreq'[q].pc = "done"
           /\ kreq'[q].result = [userId |-> kreq[q].keyRecord.user_id,
                                 email |-> kreq[q].user.email]
           /\ kreq'[q].cause = "none"
           /\ kreq'[q].resp.status \notin {401, 500} ]_vars

C21_Witness ==
  \E q \in KeyProcs :
    /\ api_keys # <<>>
    /\ api_keys[1].created_at > 0
    /\ api_keys[1].last_used_at = NoUse
    /\ kreq[q].pc = "done"
    /\ kreq[q].apiKey = ApiKeyOf(1)
    /\ kreq[q].result = Identity(1)
    /\ kreq[q].queries = 3

\* What each column of a stored key record may hold: the hash and the
\* display prefix are the only ones derived from the key string.
Timestamps == {"last_used_at", "created_at", "expires_at"}
Metadata(row) ==
  /\ row.api_key_id \in KeyIds
  /\ row.user_id \in UserIds
  /\ row.name \in Names
  /\ \A c \in Timestamps : row[c] \in Int
  /\ row.is_active \in {0, 1}
  /\ row.key_prefix = KeyPrefix(ApiKeyOf(row.api_key_id))

\* C22: a stored key record has the hash of the key string and its first
\* 16 characters and otherwise metadata only, never the key string; a row
\* that a list returns has no api_key_hash column and nothing but the
\* prefix and the metadata; and what a validation returns or a rejected
\* request is answered holds no key material.
C22_KeyMaterialConfined ==
  /\ \A i \in DOMAIN api_keys :
       /\ DOMAIN api_keys[i] = Timestamps \cup
            {"api_key_id", "user_id", "api_key_hash", "key_prefix", "name", "is_active"}
       /\ api_keys[i].api_key_hash = hashApiKey(ApiKeyOf(i))
       /\ Metadata(api_keys[i])
  /\ \A u \in UserIds : \A rows \in ListOrders(api_keys, u) :
       \A j \in DOMAIN rows :
         /\ DOMAIN rows[j] = Timestamps \cup
              {"api_key_id", "user_id", "key_prefix", "name", "is_active"}
         /\ Metadata(rows[j])
  /\ \A q \in KeyProcs :
       /\ kreq[q].result # NoIdentity =>
            /\ DOMAIN kreq[q].result = {"userId", "email"}
            /\ kreq[q].result.userId \in UserIds
            /\ kreq[q].result.email \in { UserEmail[u] : u \in UserIds }
       /\ (kreq[q].pc = "done" /\ kreq[q].cause # "none") =>
            /\ DOMAIN kreq[q].resp.body = {"error"}
            /\ kreq[q].resp.body.error \in
                 {"Missing Authorization header", "Invalid or expired API key"}

C22_Witness ==
  /\ Len(api_keys) = 2
  /\ Cardinality(ListOrders(api_keys, "u1")) = 2
  /\ api_keys[1].is_active = 0
  /\ kreq["k1"].pc = "done"
  /\ kreq["k1"].apiKey = ApiKeyOf(2)
  /\ kreq["k1"].result = Identity(2)

\* What the request carries: a bearer credential whose token starts with
\* the key prefix.
CarriesBearerKey(authHeader) ==
  /\ authHeader # NoHeader
  /\ authHeader.scheme = Bearer
  /\ StartsWith(authHeader.token, WTYK)

\* C23: a request that came through fetch was given to exactly one of the
\* two handlers, and to the API-key handler exactly when its path is /mcp
\* and its Authorization header is "Bearer " followed by a token that
\* starts with the key prefix.
C23_RouterDecision ==
  \A q \in KeyProcs :
    kreq[q].pathname # "" =>
      /\ kreq[q].keyPath # kreq[q].oauthPath
      /\ kreq[q].keyPath =
           (kreq[q].pathname = "/mcp" /\ CarriesBearerKey(kreq[q].authHeader))

\* An authorize request with a clientId that has no cookie, or whose
\* validation failed.
FailedReasons == {"NO_SESSION", "EXPIRED", "REFRESH_FAILED"}
Unauthenticated(r) ==
  /\ r.handler = "authorize"
  /\ r.oauthReq.clientId # ""
  /\ \/ r.sessionToken = NoCookie
     \/ ~r.result.valid /\ r.result.reason \in FailedReasons

\* C24: with the session store bound, the step that ends an authorize
\* request without a cookie or with a failed validation answers 302 to
\* the centralized login with return_to the authorize URL of the request,
\* and neither draws a code verifier nor writes a pkce key.
C24_FailedSessionRedirects ==
  [][ \A p \in Procs :
        ( /\ kvConfigured
          /\ proc[p].pc # "done" /\ proc'[p].pc = "done"
          /\ Unauthenticated(proc'[p]) )
        => /\ proc'[p].resp.status = 302
           /\ proc'[p].resp.body = ""
           /\ proc'[p].resp.location[1] = "https://panel.wtyczki.ai/auth/login-custom"
           /\ proc'[p].resp.location[2] =
                <<"/authorize", proc'[p].oauthReq, proc'[p].sessionToken>>
           /\ proc'[p].codeVerifier = NoVerifier
           /\ UNCHANGED <<pkce, verifierCtr, storedUnder>> ]_vars

C24_Witness ==
  \E p, q \in Procs :
    /\ proc[p].pc = "done" /\ Unauthenticated(proc[p])
    /\ proc[p].result.reason = "REFRESH_FAILED"
    /\ proc[p].resp.status = 302
    /\ proc[q].pc = "done" /\ Unauthenticated(proc[q])
    /\ proc[q].sessionToken = NoCookie
    /\ proc[q].resp.status = 302
    /\ verifierCtr = 0

\* C25: a finished callback is answered by the first check it fails: 400
\* "Invalid state" for a state without clientId, else 400 "Missing code"
\* for no code, else 400 with the PKCE message for no verifier, else, when
\* the identity provider rejected the exchange, 400 "Auth failed" whatever
\* the provider's error was.
C25_CallbackFailureTaxonomy ==
  \A p \in Procs :
    (IsCallback(p) /\ proc[p].pc = "done") =>
      IF proc[p].oauthReq.clientId = ""
      THEN proc[p].resp = Respond(400, "Invalid state")
      ELSE IF proc[p].code = NoCode
      THEN proc[p].resp = Respond(400, "Missing code")
      ELSE IF proc[p].codeVerifier = NoVerifier
      THEN /\ proc[p].resp = Respond(400, "Invalid or expired PKCE verification")
           /\ ~proc[p].exchanged
      ELSE proc[p].email = "" =>
             /\ proc[p].exchanged
             /\ proc[p].resp = Respond(400, "Auth failed")

C25_Witness ==
  \E p, q \in Procs :
    /\ IsCallback(p) /\ proc[p].pc = "done"
    /\ proc[p].exchanged /\ proc[p].email = ""
    /\ proc[p].resp.body = "Auth failed"
    /\ IsCallback(q) /\ proc[q].pc = "done"
    /\ proc[q].oauthReq.clientId = "" /\ proc[q].code = NoCode
    /\ proc[q].resp.body = "Invalid state"

\* C26: a callback whose state parameter is missing or does not decode to
\* a client request is answered 400 like one whose state has no clientId,
\* and not by an error handler.
C26_UndecodableStateIs400 ==
  \A p \in Procs :
    (IsCallback(p) /\ proc[p].pc = "done" /\ ~Decodable(proc[p].state)) =>
      /\ proc[p].resp.status = 400
      /\ ~proc[p].thrown

\* A validation about to write the touch of a record that a refresh has
\* rotated since the validation read it.
TouchAfterRotation(p) ==
  /\ proc[p].pc = "v_touch_put" /\ proc'[p].pc # "v_touch_put"
  /\ sessions[proc[p].sessionToken] # NoEntry
  /\ sessions[proc[p].sessionToken].val.refresh_token # proc[p].session.refresh_token

\* C27: the touch write of a validation that read the record before a
\* concurrent refresh rotated it leaves the rotated refresh_token and
\* expires_at in place; no write moves expires_at backwards; and when no
\* refreshed record waits to be written the stored refresh_token is the
\* last one the identity provider issued.
C27_NoLostRotation ==
  [][ \A k \in Tokens :
        /\ \A p \in Procs :
             (proc[p].sessionToken = k /\ TouchAfterRotation(p)) =>
               /\ sessions'[k].val.refresh_token = sessions[k].val.refresh_token
               /\ sessions'[k].val.expires_at = sessions[k].val.expires_at
        /\ (sessions[k] # NoEntry /\ sessions'[k] # NoEntry) =>
             sessions'[k].val.expires_at >= sessions[k].val.expires_at
        /\ ( /\ sessions'[k] # NoEntry
             /\ sessions'[k].val.refresh_token # NoToken
             /\ \A p \in Procs : proc'[p].pc # "v_refresh_put" ) =>
             sessions'[k].val.refresh_token = idpIssued' ]_vars

\* C28: a validation whose refresh exchange succeeded ends VALID with the
\* refreshed record written, also when the put after the exchange
\* rejects, so REFRESH_FAILED is the result of a rejected exchange only.
C28_RefreshFailedOnlyUpstream ==
  \A p \in Procs :
    /\ (proc[p].newAuth # NoToken /\ proc[p].pc \in {"a_user", "done"}) =>
         /\ proc[p].result = Valid
         /\ proc[p].writes > 0
    /\ proc[p].result.reason = "REFRESH_FAILED" => proc[p].newAuth = NoToken


PassedChecks(p) ==
  /\ IsCallback(p)
  /\ Decodable(proc[p].state)
  /\ proc[p].oauthReq.clientId # ""
  /\ proc[p].code # NoCode

\* No verifier was put under the state of p after the one p obtained.
NoLaterStore(p) ==
  \A v \in Verifiers :
    (v > proc[p].codeVerifier /\ storedUnder[v] # <<>>) => storedUnder[v][1] # proc[p].state

\* C30: pkce:{s} goes from present to absent only in the delete step of a
\* callback for s that passed the clientId and code checks; a callback
\* answered "Invalid state" or "Missing code" leaves the store as it was; a
\* callback enters the code exchange by the step that deletes pkce:{state};
\* and a callback that reads pkce:{s} after another callback's exchange for
\* s was rejected, with no verifier put under s since, is answered 400 with
\* the PKCE message.
C30_DeleteOnlyAfterChecks ==
  [][ /\ \A s \in States :
           (pkce[s] # NoEntry /\ pkce'[s] = NoEntry) =>
             \E p \in Procs :
               /\ PassedChecks(p) /\ proc[p].state = s
               /\ proc[p].pc = "cb_delete" /\ proc'[p].pc # "cb_delete"
      /\ \A p \in Procs :
           (proc[p].pc = "idle" /\ proc'[p].handler = "callback" /\ proc'[p].pc = "done") =>
             /\ proc'[p].resp.body \in {"Invalid state", "Missing code"} => ~PassedChecks(p)'
             /\ pkce' = pkce
      /\ \A p \in Procs :
           (IsCallback(p) /\ proc[p].pc # "cb_exchange" /\ proc'[p].pc = "cb_exchange") =>
             /\ proc[p].pc = "cb_delete"
             /\ pkce'[proc[p].state] = NoEntry
      /\ \A p, q \in Procs :
           ( /\ IsCallback(p) /\ proc[p].pc = "done" /\ proc[p].resp.body = "Auth failed"
             /\ NoLaterStore(p)
             /\ IsCallback(q) /\ proc[q].state = proc[p].state
             /\ proc[q].pc = "cb_get" /\ proc'[q].pc # "cb_get" ) =>
             /\ proc'[q].pc = "done"
             /\ proc'[q].resp.status = 400
             /\ proc'[q].resp.body = PkceMessage
             /\ ~proc'[q].exchanged ]_vars

C30_Witness ==
  \E p, q \in Procs :
    /\ kvConfigured
    /\ IsCallback(p) /\ proc[p].pc = "done" /\ proc[p].resp.body = "Auth failed"
    /\ NoLaterStore(p)
    /\ takes[proc[p].codeVerifier] = 1
    /\ PassedChecks(q) /\ proc[q].state = proc[p].state
    /\ proc[q].pc = "done" /\ proc[q].resp.body = PkceMessage
    /\ \E s \in States : pkce[s] # NoEntry

====
